---- MODULE Spec2Model ----
(***************************************************************************)
(* A model of image_date_organizer: the Organizer (organize.py), its      *)
(* extractor chains (extractors.py) and the verified copier, over an      *)
(* explicit filesystem.                                                    *)
(*                                                                         *)
(* A character is a one-character string, a name (one path component) is  *)
(* a sequence of characters, a path is a sequence of names.  The          *)
(* filesystem fs maps every existing path to its node.                    *)
(***************************************************************************)
EXTENDS Integers, Sequences, FiniteSets, TLC

VARIABLES
    fs,        \* the filesystem: path -> node
    organizer, \* the Organizer of the current run (fields set by __init__)
    run,       \* the organize() call in progress: arguments, status, fs at its start
    stack,     \* the active organize_dir frames, innermost last
    log,       \* path -> what organize_file did with it in the current run
    prev,      \* the previous organize() call: its run record and its log
    runs,      \* number of organize() calls started
    call       \* the last direct verify_copy call and its outcome

vars == <<fs, organizer, run, stack, log, prev, runs, call>>

----------------------------------------------------------------------------
(* Bounds *)

MaxRuns == 2        \* organize() calls in one behaviour
MaxFiles == 2       \* files in the initial source tree

----------------------------------------------------------------------------
(* Text *)

DigitChars == <<"0", "1", "2", "3", "4", "5", "6", "7", "8", "9">>

IsDigit(c) == \E i \in 1..10 : DigitChars[i] = c

DigitValue(c) == (CHOOSE i \in 1..10 : DigitChars[i] = c) - 1

\* int("...") of a run of digit characters
RECURSIVE ParseInt(_)
ParseInt(s) ==
    IF s = <<>> THEN 0
    ELSE 10 * ParseInt(SubSeq(s, 1, Len(s) - 1)) + DigitValue(s[Len(s)])

\* str(n) for a non-negative integer: decimal, no padding
RECURSIVE str(_)
strPadded(n) ==
    IF n < 10 THEN <<"0", DigitChars[n + 1]>>
    ELSE IF n < 100 THEN <<DigitChars[(n \div 10) + 1], DigitChars[(n % 10) + 1]>>
    ELSE str(n \div 10) \o <<DigitChars[(n % 10) + 1]>>

str(n) ==
    IF n < 10 THEN <<DigitChars[n + 1]>>
    ELSE str(n \div 10) \o <<DigitChars[(n % 10) + 1]>>

----------------------------------------------------------------------------
(* Dates *)

Date(y, m, d) == [year |-> y, month |-> m, day |-> d]

\* Python's None where a date is expected
None == Date(0, 0, 0)

IsLeap(y) == (y % 4 = 0 /\ y % 100 # 0) \/ y % 400 = 0

DaysInMonth(y, m) ==
    IF m = 2 THEN (IF IsLeap(y) THEN 29 ELSE 28)
    ELSE IF m \in {4, 6, 9, 11} THEN 30 ELSE 31

----------------------------------------------------------------------------
(* Filesystem *)

Bytes == {0, 1}

\* the contents a file may have, and copy2 may leave on the disk
Contents == {<<>>} \cup {<<b>> : b \in Bytes}

NoExif == [present |-> FALSE, has_field |-> FALSE, value |-> [ok |-> FALSE, date |-> None]]

NoTool == [error |-> "none", stdout |-> <<>>]

\* a directory, and an entry that is neither a file nor a directory
DirNode == [type |-> "dir", mime |-> <<"inode", "directory">>, content |-> <<>>,
            exif |-> NoExif, exiftool |-> NoTool, mtime |-> None]

OtherNode == [type |-> "other", mime |-> <<"inode", "fifo">>, content |-> <<>>,
              exif |-> NoExif, exiftool |-> NoTool, mtime |-> None]

exists(f, path) == path \in DOMAIN f

is_file(f, path) == path \in DOMAIN f /\ f[path].type = "file"

is_dir(f, path) == path \in DOMAIN f /\ f[path].type = "dir"

name(path) == path[Len(path)]

parent(path) == SubSeq(path, 1, Len(path) - 1)

Prefixes(path) == {SubSeq(path, 1, n) : n \in 1..Len(path)}

\* the entries of a directory, as Path.iterdir() lists them
iterdir(f, dir) == {p \in DOMAIN f : Len(p) = Len(dir) + 1 /\ parent(p) = dir}

\* f with path bound to node
Put(f, path, node) ==
    [p \in (DOMAIN f) \cup {path} |-> IF p = path THEN node ELSE f[p]]

\* Path.unlink() / Path.rmdir() of an existing entry
unlink(f, path) == [p \in (DOMAIN f) \ {path} |-> f[p]]

\* Path.mkdir(parents=True, exist_ok=True): fails when a component exists
\* and is not a directory, else creates every missing component
mkdir(f, path) ==
    IF \E p \in Prefixes(path) : exists(f, p) /\ ~is_dir(f, p)
    THEN [fs |-> f, raised |-> "FileExistsError"]
    ELSE [fs |-> [p \in (DOMAIN f) \cup Prefixes(path) |->
                     IF p \in DOMAIN f THEN f[p] ELSE DirNode],
          raised |-> "none"]

\* Path.rmdir(): errno 13 (EACCES) when the system denies the removal,
\* errno 39 (ENOTEMPTY) when the directory has entries
rmdir(f, path, denied) ==
    IF denied
    THEN [fs |-> f, raised |-> "[Errno 13]"]
    ELSE IF iterdir(f, path) # {}
    THEN [fs |-> f, raised |-> "[Errno 39]"]
    ELSE [fs |-> unlink(f, path), raised |-> "none"]

----------------------------------------------------------------------------
(* utils.sha256_file *)

chunksize == 4 * 1024 * 1024

Min(a, b) == IF a < b THEN a ELSE b

\* hasher.update(data) appends data to what the hasher has absorbed
update(absorbed, data) == absorbed \o data

\* hasher.hexdigest(): a digest that tells apart all contents of the model
RECURSIVE hexdigest(_)
hexdigest(absorbed) ==
    IF absorbed = <<>> THEN 1
    ELSE (3 * hexdigest(SubSeq(absorbed, 1, Len(absorbed) - 1))
          + absorbed[Len(absorbed)] + 1) % (2 ^ 16)

\* the read loop: one chunk per iteration until a read returns no data
RECURSIVE readLoop(_, _, _, _)
readLoop(content, pos, size, absorbed) ==
    LET data == SubSeq(content, pos + 1, Min(pos + size, Len(content)))
    IN  IF data = <<>> THEN absorbed
        ELSE readLoop(content, pos + Len(data), size, update(absorbed, data))

sha256_file(f, path) == hexdigest(readLoop(f[path].content, 0, chunksize, <<>>))

----------------------------------------------------------------------------
(* organize.verify_copy *)

\* shutil.copy2(source, destination): destination gets the source's
\* metadata and the bytes `written` that reach the disk
copy2(f, source, destination, written) ==
    Put(f, destination, [f[source] EXCEPT !.content = written])

VerifyOutcome(f, raised, ops) == [fs |-> f, raised |-> raised, ops |-> ops]

\* copy2 given a directory writes a file of the source's name into it
verify_copyIntoDir(f, source, destination, written) ==
    IF ~is_file(f, source)
    THEN VerifyOutcome(f, "ValueError: Source must be a file", <<>>)
    ELSE LET copied == IF is_dir(f, destination) THEN destination \o <<name(source)>>
                       ELSE destination
             f1 == copy2(f, source, copied, written)
         IN  IF ~is_dir(f, parent(copied)) THEN VerifyOutcome(f, "OSError", <<"sha256_file", "copy2">>)
             ELSE IF sha256_file(f, source) # sha256_file(f1, copied)
             THEN VerifyOutcome(unlink(f1, copied), "ValueError: contents did not match",
                      <<"sha256_file", "copy2", "sha256_file", "unlink">>)
             ELSE VerifyOutcome(f1, "none", <<"sha256_file", "copy2", "sha256_file">>)

verify_copyKeepsMismatch(f, source, destination, written) ==
    IF ~is_file(f, source)
    THEN VerifyOutcome(f, "ValueError: Source must be a file", <<>>)
    ELSE IF is_dir(f, destination)
    THEN VerifyOutcome(f, "ValueError: Destination may not be a directory", <<>>)
    ELSE IF source = destination \/ ~is_dir(f, parent(destination))
    THEN VerifyOutcome(f, "OSError", <<"sha256_file", "copy2">>)
    ELSE LET f1 == copy2(f, source, destination, written)
         IN  IF sha256_file(f, source) # sha256_file(f1, destination)
             THEN VerifyOutcome(f1, "ValueError: contents did not match",
                      <<"sha256_file", "copy2", "sha256_file">>)
             ELSE VerifyOutcome(f1, "none", <<"sha256_file", "copy2", "sha256_file">>)

verify_copy(f, source, destination, written) ==
    IF ~is_file(f, source)
    THEN VerifyOutcome(f, "ValueError: Source must be a file", <<>>)
    ELSE IF is_dir(f, destination)
    THEN VerifyOutcome(f, "ValueError: Destination may not be a directory", <<>>)
    ELSE IF source = destination \/ ~is_dir(f, parent(destination))
    THEN \* copy2 refuses: SameFileError, or no directory to write into
         VerifyOutcome(f, "OSError", <<"sha256_file", "copy2">>)
    ELSE
      LET source_sha256 == sha256_file(f, source)
          f1 == copy2(f, source, destination, written)
          copied == destination
          dest_sha256 == sha256_file(f1, copied)
      IN  IF source_sha256 # dest_sha256
          THEN IF is_file(f1, copied)
               THEN VerifyOutcome(unlink(f1, copied),
                        "ValueError: contents did not match",
                        <<"sha256_file", "copy2", "sha256_file", "unlink">>)
               ELSE VerifyOutcome(f1, "ValueError: contents did not match",
                        <<"sha256_file", "copy2", "sha256_file">>)
          ELSE VerifyOutcome(f1, "none", <<"sha256_file", "copy2", "sha256_file">>)

create_date_pathDayFirst(root, date) ==
    root \o <<str(date.year)>> \o <<str(date.day)>> \o <<str(date.month)>>

\* organize.create_date_path
create_date_path(root, date) ==
    root \o <<str(date.year)>> \o <<str(date.month)>> \o <<str(date.day)>>

----------------------------------------------------------------------------
(* extractors.py *)

\* what extract() gives: a date (or None), or the exception it raised
Extraction(date, raised) == [date |-> date, raised |-> raised]

\* pendulum.parse of a metadata value: the library either understands the
\* text (value.ok) or raises ParserError, a ValueError
pendulum_parse(value) ==
    IF value.ok THEN Extraction(value.date, "none")
    ELSE Extraction(None, "ValueError")

\* A compiled pattern is a sequence of tokens: "d" is \d, "d+" is \d+ (last
\* token only), "c" is the literal character c; g marks the tokens inside
\* capture group 1.
Tok(t, c, g) == [t |-> t, c |-> c, g |-> g]

Rep(n, tok) == [i \in 1..n |-> tok]

Lit(chars, g) == [i \in 1..Len(chars) |-> Tok("c", chars[i], g)]

\* re.compile(r"(\d{8}_\d{6})")
PatDateTime == Rep(8, Tok("d", "", TRUE)) \o Lit(<<"_">>, TRUE) \o Rep(6, Tok("d", "", TRUE))

\* re.compile(r"IMG-(\d{8})-WA\d+")
PatWhatsApp == Lit(<<"I", "M", "G", "-">>, FALSE) \o Rep(8, Tok("d", "", TRUE))
               \o Lit(<<"-", "W", "A">>, FALSE) \o <<Tok("d+", "", FALSE)>>

NoMatch == [matched |-> FALSE, group |-> <<>>]

\* pattern.match(text): anchored at the start of text, not at its end
RECURSIVE matchFrom(_, _, _, _, _)
matchFrom(pattern, i, text, pos, group) ==
    IF i > Len(pattern) THEN [matched |-> TRUE, group |-> group]
    ELSE IF pos > Len(text) THEN NoMatch
    ELSE LET tok == pattern[i]
             grp == IF tok.g THEN Append(group, text[pos]) ELSE group
         IN  IF tok.t = "c"
             THEN IF text[pos] = tok.c
                  THEN matchFrom(pattern, i + 1, text, pos + 1, grp) ELSE NoMatch
             ELSE IF ~IsDigit(text[pos]) THEN NoMatch
             ELSE IF tok.t = "d+" /\ pos < Len(text) /\ IsDigit(text[pos + 1])
                  THEN matchFrom(pattern, i, text, pos + 1, grp)
                  ELSE matchFrom(pattern, i + 1, text, pos + 1, grp)

re_match(pattern, text) == matchFrom(pattern, 1, text, 1, <<>>)

\* the width of a pendulum format token; any other token is a literal
FmtWidth(tok) == IF tok = "YYYY" THEN 4
                 ELSE IF tok \in {"MM", "DD", "HH", "mm", "ss"} THEN 2 ELSE 0

NoFields == [YYYY |-> 1, MM |-> 1, DD |-> 1, HH |-> 0, mm |-> 0, ss |-> 0, ok |-> TRUE]

\* the fields pendulum.from_format reads off text under fmt; ok is FALSE
\* when text does not have the shape of fmt
RECURSIVE readFields(_, _, _, _, _)
readFields(fmt, i, text, pos, fields) ==
    IF i > Len(fmt) THEN [fields EXCEPT !.ok = (pos = Len(text) + 1)]
    ELSE LET w == FmtWidth(fmt[i])
         IN  IF w = 0
             THEN IF pos <= Len(text) /\ text[pos] = fmt[i]
                  THEN readFields(fmt, i + 1, text, pos + 1, fields)
                  ELSE [fields EXCEPT !.ok = FALSE]
             ELSE IF pos + w - 1 <= Len(text)
                     /\ \A k \in pos..(pos + w - 1) : IsDigit(text[k])
                  THEN readFields(fmt, i + 1, text, pos + w,
                           [fields EXCEPT ![fmt[i]] = ParseInt(SubSeq(text, pos, pos + w - 1))])
                  ELSE [fields EXCEPT !.ok = FALSE]

\* pendulum.from_format(text, fmt).date(): ValueError when text does not
\* fit fmt or names no real date and time
from_format(text, fmt) ==
    LET v == readFields(fmt, 1, text, 1, NoFields)
    IN  IF v.ok /\ v.YYYY >= 1 /\ v.MM \in 1..12 /\ v.DD \in 1..DaysInMonth(v.YYYY, v.MM)
           /\ v.HH \in 0..23 /\ v.mm \in 0..59 /\ v.ss \in 0..59
        THEN Extraction(Date(v.YYYY, v.MM, v.DD), "none")
        ELSE Extraction(None, "ValueError")

\* The extractor objects
ExifImageExtractor ==
    [cls |-> "ExifImageExtractor", ignore_errors |-> FALSE, pattern |-> <<>>, date_fmt |-> <<>>]

RegexExtractor(pattern, date_fmt, ignore_errors) ==
    [cls |-> "RegexExtractor", ignore_errors |-> ignore_errors,
     pattern |-> pattern, date_fmt |-> date_fmt]

ExifToolExtractor(ignore_errors) ==
    [cls |-> "ExifToolExtractor", ignore_errors |-> ignore_errors, pattern |-> <<>>, date_fmt |-> <<>>]

MTimeExtractor ==
    [cls |-> "MTimeExtractor", ignore_errors |-> FALSE, pattern |-> <<>>, date_fmt |-> <<>>]

\* ExifImageExtractor.extract
ExifImageExtract(self, path, node) ==
    IF node.exif.present /\ node.exif.has_field
    THEN pendulum_parse(node.exif.value)
    ELSE Extraction(None, "none")

\* the except clause returning None whatever ignore_errors is
RegexExtractSwallows(self, path, node) ==
    LET match == re_match(self.pattern, name(path))
    IN  IF ~match.matched THEN Extraction(None, "none")
        ELSE LET dt == from_format(match.group, self.date_fmt)
             IN  IF dt.raised # "none" THEN Extraction(None, "none") ELSE dt

\* RegexExtractor.extract
RegexExtract(self, path, node) ==
    LET match == re_match(self.pattern, name(path))
    IN  IF ~match.matched THEN Extraction(None, "none")
        ELSE LET dt == from_format(match.group, self.date_fmt)
             IN  IF dt.raised # "none"
                 THEN IF self.ignore_errors THEN Extraction(None, "none") ELSE dt
                 ELSE dt

\* the loop of ExifToolExtractor.extract over the lines of stdout
RECURSIVE createDate(_, _, _)
createDate(lines, i, date) ==
    IF i > Len(lines) THEN date
    ELSE IF lines[i].create_date /\ pendulum_parse(lines[i].value).raised = "none"
         THEN createDate(lines, i + 1, pendulum_parse(lines[i].value).date)
         ELSE createDate(lines, i + 1, date)

\* one policy for both failures: a Create Date that cannot be parsed is
\* raised unless ignore_errors is set
ExifToolExtractOnePolicy(self, path, node) ==
    IF node.exiftool.error # "none"
    THEN IF self.ignore_errors THEN Extraction(None, "none")
         ELSE Extraction(None, node.exiftool.error)
    ELSE IF ~self.ignore_errors
            /\ \E i \in 1..Len(node.exiftool.stdout) :
                  /\ node.exiftool.stdout[i].create_date
                  /\ pendulum_parse(node.exiftool.stdout[i].value).raised # "none"
    THEN Extraction(None, "ValueError")
    ELSE Extraction(createDate(node.exiftool.stdout, 1, None), "none")

\* ExifToolExtractor.extract
ExifToolExtract(self, path, node) ==
    IF node.exiftool.error # "none"
    THEN IF self.ignore_errors THEN Extraction(None, "none")
         ELSE Extraction(None, node.exiftool.error)
    ELSE Extraction(createDate(node.exiftool.stdout, 1, None), "none")

\* MTimeExtractor.extract
MTimeExtract(self, path, node) == Extraction(node.mtime, "none")

\* extractor.extract(path), dispatched on the extractor's class
extract(self, path, node) ==
    IF self.cls = "ExifImageExtractor" THEN ExifImageExtract(self, path, node)
    ELSE IF self.cls = "RegexExtractor" THEN RegexExtract(self, path, node)
    ELSE IF self.cls = "ExifToolExtractor" THEN ExifToolExtract(self, path, node)
    ELSE MTimeExtract(self, path, node)

----------------------------------------------------------------------------
(* organize.Organizer *)

\* Organizer.__init__
Organizer(image_extractors, video_extractors, dry_run, remove_source) ==
    [image_extractors |-> image_extractors,
     video_extractors |-> video_extractors,
     dry_run |-> dry_run,
     remove_source |-> IF ~dry_run THEN remove_source ELSE FALSE]

\* magic.from_file(path, mime=True), split at "/"
is_image(node) == node.mime[1] = "image"

is_mp4(node) == node.mime = <<"video", "mp4">>

\* Organizer._extract_file_date: invoked lists the extractors called
ChainResult(date, raised, invoked) == [date |-> date, raised |-> raised, invoked |-> invoked]

RECURSIVE extractFrom(_, _, _, _, _)
extractFromNoStop(extractors, i, path, node, invoked) ==
    IF i > Len(extractors) THEN ChainResult(None, "none", invoked)
    ELSE LET extraction == extract(extractors[i], path, node)
             rest == extractFrom(extractors, i + 1, path, node, Append(invoked, i))
         IN  IF extraction.raised # "none"
             THEN ChainResult(None, extraction.raised, Append(invoked, i))
             ELSE IF rest.raised = "none" /\ rest.date = None
             THEN ChainResult(extraction.date, "none", rest.invoked)
             ELSE rest

extractFrom(extractors, i, path, node, invoked) ==
    IF i > Len(extractors) THEN ChainResult(None, "none", invoked)
    ELSE LET extraction == extract(extractors[i], path, node)
         IN  IF extraction.raised # "none"
             THEN ChainResult(None, extraction.raised, Append(invoked, i))
             ELSE IF extraction.date # None
             THEN ChainResult(extraction.date, "none", Append(invoked, i))
             ELSE extractFrom(extractors, i + 1, path, node, Append(invoked, i))

extract_file_date(path, node, extractors) == extractFrom(extractors, 1, path, node, <<>>)

extract_dateAnyFile(self, path, node) ==
    IF is_mp4(node) THEN extract_file_date(path, node, self.video_extractors)
    ELSE extract_file_date(path, node, self.image_extractors)

\* Organizer.extract_date
extract_date(self, path, node) ==
    IF is_image(node) THEN extract_file_date(path, node, self.image_extractors)
    ELSE IF is_mp4(node) THEN extract_file_date(path, node, self.video_extractors)
    ELSE ChainResult(None, "none", <<>>)

\* the chain Organizer.extract_date hands a file of this content to
ChainFor(self, node) ==
    IF node.mime[1] = "image" THEN self.image_extractors
    ELSE IF node.mime = <<"video", "mp4">> THEN self.video_extractors
    ELSE <<>>

Kind(node) == IF is_image(node) THEN "image" ELSE IF is_mp4(node) THEN "video" ELSE "unknown"

\* what organize_file did with one file: the classification, the extractors
\* invoked, the date, the destination path, the choice it logged ("skip",
\* "copy", or "none" when it returned before choosing), the branch it left
\* by, and the filesystem calls it made
Entry(node, ext, dest_path, choice, branch, ops) ==
    [kind |-> Kind(node), invoked |-> ext.invoked, date |-> ext.date,
     dest_path |-> dest_path, choice |-> choice, branch |-> branch, ops |-> ops]

FileOutcome(f, raised, entry) == [fs |-> f, raised |-> raised, entry |-> entry]

\* the source removed whether or not verify_copy raised
organize_file_copiedRemovesAnyway(self, f, source, ext, dest_path, copy) ==
    IF self.remove_source /\ is_file(copy.fs, source)
    THEN FileOutcome(unlink(copy.fs, source), copy.raised,
             Entry(f[source], ext, dest_path, "copy",
                   IF copy.raised # "none" THEN "copy-raised" ELSE "copied",
                   <<"mkdir", "verify_copy", "unlink">>))
    ELSE FileOutcome(copy.fs, copy.raised,
             Entry(f[source], ext, dest_path, "copy",
                   IF copy.raised # "none" THEN "copy-raised" ELSE "copied",
                   <<"mkdir", "verify_copy">>))

\* organize_file after verify_copy: the failure is raised again, or the
\* source is removed
organize_file_copied(self, f, source, ext, dest_path, copy) ==
    IF copy.raised # "none"
    THEN FileOutcome(copy.fs, copy.raised,
             Entry(f[source], ext, dest_path, "copy", "copy-raised", <<"mkdir", "verify_copy">>))
    ELSE IF self.remove_source /\ is_file(copy.fs, source)
    THEN FileOutcome(unlink(copy.fs, source), "none",
             Entry(f[source], ext, dest_path, "copy", "copied",
                   <<"mkdir", "verify_copy", "unlink">>))
    ELSE FileOutcome(copy.fs, "none",
             Entry(f[source], ext, dest_path, "copy", "copied", <<"mkdir", "verify_copy">>))

organize_file_placedNoSkip(self, f, source, written, ext, dest_path, made) ==
    IF made.raised # "none"
    THEN FileOutcome(made.fs, made.raised,
             Entry(f[source], ext, dest_path, "none", "mkdir-raised", <<"mkdir">>))
    ELSE IF self.dry_run
    THEN FileOutcome(made.fs, "none",
             Entry(f[source], ext, dest_path, "copy", "dry-run", <<"mkdir">>))
    ELSE organize_file_copied(self, f, source, ext, dest_path,
             verify_copy(made.fs, source, dest_path, written))

organize_file_placedDryFirst(self, f, source, written, ext, dest_path, made) ==
    IF made.raised # "none"
    THEN FileOutcome(made.fs, made.raised,
             Entry(f[source], ext, dest_path, "none", "mkdir-raised", <<"mkdir">>))
    ELSE IF self.dry_run
    THEN FileOutcome(made.fs, "none",
             Entry(f[source], ext, dest_path, "copy", "dry-run", <<"mkdir">>))
    ELSE IF exists(made.fs, dest_path)
    THEN FileOutcome(made.fs, "none",
             Entry(f[source], ext, dest_path, "skip", "skipped", <<"mkdir">>))
    ELSE organize_file_copied(self, f, source, ext, dest_path,
             verify_copy(made.fs, source, dest_path, written))

\* organize_file after dest_dir.mkdir: skip, dry run, or verify_copy
organize_file_placed(self, f, source, written, ext, dest_path, made) ==
    IF made.raised # "none"
    THEN FileOutcome(made.fs, made.raised,
             Entry(f[source], ext, dest_path, "none", "mkdir-raised", <<"mkdir">>))
    ELSE IF exists(made.fs, dest_path)
    THEN FileOutcome(made.fs, "none",
             Entry(f[source], ext, dest_path, "skip", "skipped", <<"mkdir">>))
    ELSE IF self.dry_run
    THEN FileOutcome(made.fs, "none",
             Entry(f[source], ext, dest_path, "copy", "dry-run", <<"mkdir">>))
    ELSE organize_file_copied(self, f, source, ext, dest_path,
             verify_copy(made.fs, source, dest_path, written))

\* organize_file after extract_date: return without a date, else the
\* destination directory is computed and made
organize_file_dated(self, f, source, destination, written, ext) ==
    IF ext.raised # "none"
    THEN FileOutcome(f, ext.raised, Entry(f[source], ext, <<>>, "none", "extract-raised", <<>>))
    ELSE IF ext.date = None
    THEN FileOutcome(f, "none",
             Entry(f[source], ext, <<>>, "none",
                   IF Kind(f[source]) = "unknown" THEN "not-media" ELSE "no-date", <<>>))
    ELSE organize_file_placed(self, f, source, written, ext,
             create_date_path(destination, ext.date) \o <<name(source)>>,
             mkdir(f, create_date_path(destination, ext.date)))

\* Organizer.organize_file; written is what copy2 leaves on the disk
organize_file(self, f, source, destination, written) ==
    organize_file_dated(self, f, source, destination, written,
        extract_date(self, source, f[source]))

\* the removal with no except clause around source.rmdir()
remove_dirRaisesAll(self, f, source, denied) ==
    IF self.remove_source /\ ~self.dry_run
    THEN rmdir(f, source, denied)
    ELSE [fs |-> f, raised |-> "none"]

\* the end of Organizer.organize_dir: the removal of the directory; denied
\* is whether the system refuses the rmdir
remove_dir(self, f, source, denied) ==
    IF self.remove_source /\ ~self.dry_run
    THEN LET r == rmdir(f, source, denied)
         IN  IF r.raised = "none" THEN r
             ELSE IF r.raised = "[Errno 39]" THEN [fs |-> f, raised |-> "none"]
             ELSE r
    ELSE [fs |-> f, raised |-> "none"]

----------------------------------------------------------------------------
(* The files and trees of the model *)

SourceRoot == << <<"s", "r", "c">> >>

DestRoot == << <<"d", "s", "t">> >>

N1 == <<"2", "0", "2", "1", "0", "6", "1", "3", "_", "1", "6", "4", "2", "3", "6">>

N2 == <<"a">>

SubDir == SourceRoot \o << <<"s", "u", "b">> >>

\* where the initial source tree may hold an entry
Slots == {SourceRoot \o <<N1>>, SourceRoot \o <<N2>>, SubDir \o <<N2>>}

ExifDate == Date(2018, 8, 17)

NameDate == Date(2021, 6, 13)

MTime == Date(2020, 12, 5)

File(mime, content, exif, exiftool) ==
    [type |-> "file", mime |-> mime, content |-> content,
     exif |-> exif, exiftool |-> exiftool, mtime |-> MTime]

Photo == File(<<"image", "jpeg">>, <<0>>,
              [present |-> TRUE, has_field |-> TRUE, value |-> [ok |-> TRUE, date |-> ExifDate]],
              NoTool)

Drawing == File(<<"image", "png">>, <<1>>, NoExif, NoTool)

Clip == File(<<"video", "mp4">>, <<0>>, NoExif,
             [error |-> "none",
              stdout |-> << [create_date |-> FALSE, value |-> [ok |-> FALSE, date |-> None]],
                            [create_date |-> TRUE, value |-> [ok |-> TRUE, date |-> ExifDate]] >>])

Movie == File(<<"video", "webm">>, <<1>>, NoExif, NoTool)

\* what the initial source tree may hold in a slot
Profiles(slot) ==
    IF slot = SourceRoot \o <<N1>> THEN {Photo, Drawing}
    ELSE IF slot = SourceRoot \o <<N2>> THEN {Drawing, Clip, Movie, OtherNode}
    ELSE {Drawing}

\* the chains an Organizer may be built with
FmtDateTime == <<"YYYY", "MM", "DD", "_", "HH", "mm", "ss">>

FmtDate == <<"YYYY", "MM", "DD">>

ChainConfigs ==
    { [image |-> <<ExifImageExtractor, RegexExtractor(PatDateTime, FmtDateTime, FALSE),
                   RegexExtractor(PatWhatsApp, FmtDate, FALSE), MTimeExtractor>>,
       video |-> <<ExifToolExtractor(FALSE), MTimeExtractor>>],
      [image |-> <<RegexExtractor(PatDateTime, FmtDateTime, TRUE), ExifImageExtractor>>,
       video |-> <<ExifToolExtractor(TRUE)>>] }

\* the destination before the first run: empty, or holding a file under the
\* name and date of a Photo named N1
Taken == create_date_path(DestRoot, ExifDate) \o <<N1>>

EmptyDest == [p \in {DestRoot} |-> DirNode]

Destinations ==
    { EmptyDest,
      Put(mkdir(EmptyDest, parent(Taken)).fs, Taken, Drawing) }

\* a source tree: the root, the subdirectory, entries in at most MaxFiles slots
SourceTrees ==
    UNION { { [p \in {SourceRoot, SubDir} \cup used |->
                 IF p \in used THEN assign[p] ELSE DirNode] :
              assign \in {a \in [used -> UNION {Profiles(q) : q \in used}] :
                             \A q \in used : a[q] \in Profiles(q)} } :
            used \in {u \in SUBSET Slots : Cardinality(u) <= MaxFiles} }

Merge(f, g) == [p \in (DOMAIN f) \cup (DOMAIN g) |-> IF p \in DOMAIN f THEN f[p] ELSE g[p]]

----------------------------------------------------------------------------
(* The state machine *)

NoLog == [p \in {} |-> 0]

NoFs == [p \in {} |-> DirNode]

Run(status, source, start, remove_source, raised) ==
    [status |-> status, source |-> source, destination |-> DestRoot,
     start |-> start, remove_source |-> remove_source, raised |-> raised]

NoRun == Run("idle", <<>>, NoFs, FALSE, "none")

NoPrev == [run |-> NoRun, organizer |-> Organizer(<<>>, <<>>, FALSE, FALSE), log |-> NoLog]

NoCall == [made |-> FALSE, source |-> <<>>, destination |-> <<>>, written |-> <<>>,
           before |-> NoFs, raised |-> "none", ops |-> <<>>]

Frame(source, todo) == [source |-> source, todo |-> todo]

Init ==
    /\ fs \in {Merge(s, d) : s \in SourceTrees, d \in Destinations}
    /\ organizer \in {Organizer(c.image, c.video, FALSE, FALSE) : c \in ChainConfigs}
    /\ run = NoRun
    /\ stack = <<>>
    /\ log = NoLog
    /\ prev = NoPrev
    /\ runs = 0
    /\ call = NoCall

\* an Organizer is built and organize(source, destination) is called; a
\* later call repeats the first one, with dry_run set anew
Begin(self, source, remove_source) ==
    /\ run.status # "running"
    /\ ~call.made
    /\ runs < MaxRuns
    /\ self.image_extractors = organizer.image_extractors
    /\ self.video_extractors = organizer.video_extractors
    /\ runs > 0 => source = run.source /\ remove_source = run.remove_source
    /\ runs' = runs + 1
    /\ organizer' = self
    /\ prev' = [run |-> run, organizer |-> organizer, log |-> log]
    /\ call' = NoCall

Sources == {SourceRoot} \cup Slots

\* Organizer.organize, source is a file
OrganizeFile(source, chains, dry_run, remove_source, written) ==
    /\ Begin(Organizer(chains.image, chains.video, dry_run, remove_source),
             source, remove_source)
    /\ is_file(fs, source)
    /\ \E out \in {organize_file(organizer', fs, source, DestRoot, written)} :
          /\ fs' = out.fs
          /\ log' = (source :> out.entry)
          /\ stack' = <<>>
          /\ run' = Run(IF out.raised = "none" THEN "returned" ELSE "raised",
                        source, fs, remove_source, out.raised)

\* Organizer.organize, source is a directory: organize_dir is entered
OrganizeDir(source, chains, dry_run, remove_source) ==
    /\ Begin(Organizer(chains.image, chains.video, dry_run, remove_source), source, remove_source)
    /\ ~is_file(fs, source)
    /\ is_dir(fs, source)
    /\ stack' = <<Frame(source, iterdir(fs, source))>>
    /\ log' = NoLog
    /\ run' = Run("running", source, fs, remove_source, "none")
    /\ UNCHANGED fs

\* Organizer.organize, source is neither
OrganizeOther(source, chains, dry_run, remove_source) ==
    /\ Begin(Organizer(chains.image, chains.video, dry_run, remove_source), source, remove_source)
    /\ ~is_file(fs, source)
    /\ ~is_dir(fs, source)
    /\ stack' = <<>>
    /\ log' = NoLog
    /\ run' = Run("raised", source, fs, remove_source, "NotImplementedError")
    /\ UNCHANGED fs

Top == stack[Len(stack)]

Rest(item) == [stack EXCEPT ![Len(stack)].todo = @ \ {item}]

\* the loop with the call of organize_file wrapped in try/except
DirFileCatches(item, written) ==
    /\ run.status = "running"
    /\ item \in Top.todo
    /\ is_file(fs, item)
    /\ \E out \in {organize_file(organizer, fs, item, run.destination, written)} :
          /\ fs' = out.fs
          /\ log' = (item :> out.entry) @@ log
    /\ stack' = Rest(item)
    /\ UNCHANGED <<organizer, run, prev, runs, call>>

\* organize_dir, one iteration of the loop: item is a file
DirFile(item, written) ==
    /\ run.status = "running"
    /\ item \in Top.todo
    /\ is_file(fs, item)
    /\ \E out \in {organize_file(organizer, fs, item, run.destination, written)} :
          /\ fs' = out.fs
          /\ log' = (item :> out.entry) @@ log
          /\ IF out.raised = "none"
             THEN /\ stack' = Rest(item)
                  /\ UNCHANGED run
             ELSE \* nothing in organize_dir catches it: the run ends here
                  /\ UNCHANGED stack
                  /\ run' = [run EXCEPT !.status = "raised", !.raised = out.raised]
    /\ UNCHANGED <<organizer, prev, runs, call>>

\* organize_dir, one iteration of the loop: item is a directory
DirDescend(item) ==
    /\ run.status = "running"
    /\ item \in Top.todo
    /\ ~is_file(fs, item)
    /\ is_dir(fs, item)
    /\ stack' = Append(Rest(item), Frame(item, iterdir(fs, item)))
    /\ UNCHANGED <<fs, organizer, run, log, prev, runs, call>>

\* organize_dir, one iteration of the loop: item is neither
DirSkip(item) ==
    /\ run.status = "running"
    /\ item \in Top.todo
    /\ ~is_file(fs, item)
    /\ ~is_dir(fs, item)
    /\ stack' = Rest(item)
    /\ UNCHANGED <<fs, organizer, run, log, prev, runs, call>>

\* organize_dir, after the loop: the directory is removed, the call returns
DirDone(denied) ==
    /\ run.status = "running"
    /\ Top.todo = {}
    /\ \E out \in {remove_dir(organizer, fs, Top.source, denied)} :
          /\ fs' = out.fs
          /\ IF out.raised # "none"
             THEN /\ UNCHANGED stack
                  /\ run' = [run EXCEPT !.status = "raised", !.raised = out.raised]
             ELSE /\ stack' = SubSeq(stack, 1, Len(stack) - 1)
                  /\ run' = IF Len(stack) = 1 THEN [run EXCEPT !.status = "returned"] ELSE run
    /\ UNCHANGED <<organizer, log, prev, runs, call>>

\* the paths a direct call of verify_copy is tried on
CopyDestinations == {DestRoot, DestRoot \o <<N2>>, DestRoot \o <<N2>> \o <<N2>>, Taken}

\* verify_copy(source, destination) called on its own
VerifyCopy(source, destination, written) ==
    /\ runs = 0
    /\ ~call.made
    /\ \E out \in {verify_copy(fs, source, destination, written)} :
          /\ fs' = out.fs
          /\ call' = [made |-> TRUE, source |-> source, destination |-> destination,
                      written |-> written, before |-> fs, raised |-> out.raised,
                      ops |-> out.ops]
    /\ UNCHANGED <<organizer, run, stack, log, prev, runs>>

Next ==
    \/ \E source \in Sources, chains \in ChainConfigs, dry_run \in BOOLEAN,
          remove_source \in BOOLEAN, written \in Contents :
          OrganizeFile(source, chains, dry_run, remove_source, written)
    \/ \E source \in Sources, chains \in ChainConfigs, dry_run \in BOOLEAN,
          remove_source \in BOOLEAN :
          OrganizeDir(source, chains, dry_run, remove_source)
    \/ \E source \in Sources, chains \in ChainConfigs, dry_run \in BOOLEAN,
          remove_source \in BOOLEAN :
          OrganizeOther(source, chains, dry_run, remove_source)
    \/ \E item \in DOMAIN fs, written \in Contents : DirFile(item, written)
    \/ \E item \in DOMAIN fs : DirDescend(item)
    \/ \E item \in DOMAIN fs : DirSkip(item)
    \/ \E denied \in BOOLEAN : DirDone(denied)
    \/ \E source \in Sources, destination \in CopyDestinations, written \in Contents :
          VerifyCopy(source, destination, written)

Spec == Init /\ [][Next]_vars

----------------------------------------------------------------------------
(* The extractors called on their own: one file, every extractor *)

\* "20210613_164236.jpg"
NJpg == N1 \o <<".", "j", "p", "g">>

\* "20211340_164236.jpg": fifteen characters of the shape of a date and
\* time that name month 13, day 40
NBad == <<"2", "0", "2", "1", "1", "3", "4", "0", "_", "1", "6", "4", "2", "3", "6",
          ".", "j", "p", "g">>

\* "IMG-20200101-WA0001.jpg"
NWa == <<"I", "M", "G", "-", "2", "0", "2", "0", "0", "1", "0", "1", "-", "W", "A",
         "0", "0", "0", "1", ".", "j", "p", "g">>

Names == {NJpg, NBad, NWa, N2}

\* image.info without "exif"; EXIF without the DateTime field; a DateTime
\* pendulum.parse does not understand; a DateTime it does
ExifAbsent == NoExif

ExifNoField == [present |-> TRUE, has_field |-> FALSE, value |-> [ok |-> FALSE, date |-> None]]

ExifMalformed == [present |-> TRUE, has_field |-> TRUE, value |-> [ok |-> FALSE, date |-> None]]

ExifGood == [present |-> TRUE, has_field |-> TRUE, value |-> [ok |-> TRUE, date |-> ExifDate]]

Exifs == {ExifAbsent, ExifNoField, ExifMalformed, ExifGood}

\* the lines of exiftool's output
OtherLine == [create_date |-> FALSE, value |-> [ok |-> FALSE, date |-> None]]

BadCreateDate == [create_date |-> TRUE, value |-> [ok |-> FALSE, date |-> None]]

GoodCreateDate == [create_date |-> TRUE, value |-> [ok |-> TRUE, date |-> ExifDate]]

\* what subprocess.run(["exiftool", path], check=True) may give
ToolMissing == [error |-> "FileNotFoundError", stdout |-> <<>>]

ToolFailed == [error |-> "CalledProcessError", stdout |-> <<>>]

ToolOutput(lines) == [error |-> "none", stdout |-> lines]

Tools ==
    { ToolMissing, ToolFailed, ToolOutput(<<>>), ToolOutput(<<OtherLine>>),
      ToolOutput(<<OtherLine, BadCreateDate>>), ToolOutput(<<OtherLine, GoodCreateDate>>),
      ToolOutput(<<GoodCreateDate, BadCreateDate>>) }

MediaFiles ==
    { File(mime, <<0>>, exif, exiftool) :
        mime \in {<<"image", "jpeg">>, <<"video", "mp4">>}, exif \in Exifs, exiftool \in Tools }

\* the extractors extract() is called on
Extractors ==
    {ExifImageExtractor, [ExifImageExtractor EXCEPT !.ignore_errors = TRUE], MTimeExtractor}
    \cup {RegexExtractor(PatDateTime, FmtDateTime, b) : b \in BOOLEAN}
    \cup {RegexExtractor(PatWhatsApp, FmtDate, b) : b \in BOOLEAN}
    \cup {ExifToolExtractor(b) : b \in BOOLEAN}

\* the record of a call: op is "extract" (extractors is the one extractor)
\* or "extract_date" (extractors is the chain, invoked those it called)
Extracted(op, extractors, date, raised, invoked) ==
    [op |-> op, extractors |-> extractors, date |-> date, raised |-> raised,
     invoked |-> invoked]

InitExtract ==
    /\ fs \in {(SourceRoot \o <<n>>) :> node : n \in Names, node \in MediaFiles}
    /\ organizer \in {Organizer(c.image, c.video, FALSE, FALSE) : c \in ChainConfigs}
    /\ run = NoRun
    /\ stack = <<>>
    /\ log = NoLog
    /\ prev = NoPrev
    /\ runs = 0
    /\ call = NoCall

\* extractor.extract(path)
Extract(self) ==
    /\ \E path \in DOMAIN fs :
          \E out \in {extract(self, path, fs[path])} :
              log' = (path :> Extracted("extract", <<self>>, out.date, out.raised, <<1>>))
    /\ UNCHANGED <<fs, organizer, run, stack, prev, runs, call>>

\* Organizer.extract_date(path)
ExtractDate ==
    /\ \E path \in DOMAIN fs :
          \E out \in {extract_date(organizer, path, fs[path])} :
              log' = (path :> Extracted("extract_date", ChainFor(organizer, fs[path]),
                                        out.date, out.raised, out.invoked))
    /\ UNCHANGED <<fs, organizer, run, stack, prev, runs, call>>

NextExtract ==
    \/ \E self \in Extractors : Extract(self)
    \/ ExtractDate

SpecExtract == InitExtract /\ [][NextExtract]_vars

----------------------------------------------------------------------------
(* Properties *)

Has(seq, x) == \E i \in 1..Len(seq) : seq[i] = x

InDest(p) == p[1] = DestRoot[1]

DestFiles(f) == {p \in DOMAIN f : InDest(p) /\ f[p].type = "file"}

DestTree(f) == [p \in {q \in DOMAIN f : InDest(q)} |-> f[p]]

Files(f) == [p \in {q \in DOMAIN f : f[q].type = "file"} |-> f[p]]

\* the number of decimal digits of a positive integer
Width(n) == IF n < 10 THEN 1 ELSE IF n < 100 THEN 2 ELSE IF n < 1000 THEN 3 ELSE 4

\* dir is root/year/month/day, the three written in decimal without padding
IsDatePath(dir, root, date) ==
    /\ Len(dir) = Len(root) + 3
    /\ SubSeq(dir, 1, Len(root)) = root
    /\ LET y == dir[Len(root) + 1]
           m == dir[Len(root) + 2]
           d == dir[Len(root) + 3]
       IN  /\ \A c \in {y, m, d} : \A i \in 1..Len(c) : c[i] \in {DigitChars[k] : k \in 1..10}
           /\ ParseInt(y) = date.year /\ Len(y) = Width(date.year)
           /\ ParseInt(m) = date.month /\ Len(m) = Width(date.month)
           /\ ParseInt(d) = date.day /\ Len(d) = Width(date.day)

\* in this step organize_file handled p
Processed(p) == p \in DOMAIN log' /\ (runs' # runs \/ p \notin DOMAIN log)

\* C1: the extractors of a chain are invoked in order, 1, 2, ..., each one
\* before the last invoked returned None, the date of the chain is what the
\* last invoked returned, and a chain that gives no date without raising
\* has invoked every extractor.
C1_ChainFirstResultWins ==
    \A p \in DOMAIN log :
        LET e == log[p]
            node == run.start[p]
            chain == ChainFor(organizer, node)
            k == Len(e.invoked)
        IN  /\ k <= Len(chain)
            /\ e.invoked = [i \in 1..k |-> i]
            /\ \A j \in 1..(k - 1) : extract(chain[j], p, node) = Extraction(None, "none")
            /\ e.date # None =>
                  k >= 1 /\ extract(chain[k], p, node) = Extraction(e.date, "none")
            /\ (e.date = None /\ e.branch # "extract-raised") => k = Len(chain)

\* C1 witness: the first extractor gives one date, the second would give
\* another, and the chain gave the first after invoking extractor 1 only
C1_Witness ==
    \E p \in DOMAIN log :
        LET node == run.start[p]
            chain == ChainFor(organizer, node)
        IN  /\ Len(chain) >= 2
            /\ extract(chain[1], p, node).date # None
            /\ extract(chain[2], p, node).date # None
            /\ extract(chain[1], p, node).date # extract(chain[2], p, node).date
            /\ log[p].date = extract(chain[1], p, node).date
            /\ log[p].invoked = <<1>>

\* C2 (as claimed): in and after a dry run the filesystem is what it was
\* when the run began.
C2_DryRunChangesNothing ==
    (run.status # "idle" /\ organizer.dry_run) => fs = run.start

\* C3: a file whose destination path exists when organize_file handles it
\* is skipped without a call of verify_copy, and no step of any organize
\* run changes or removes a file of the destination tree.
C3_ExistingNeverOverwritten ==
    [][ /\ \A p \in DOMAIN log' :
              (Processed(p) /\ log'[p].dest_path # <<>> /\ log'[p].dest_path \in DOMAIN fs)
              => /\ log'[p].branch = "skipped"
                 /\ ~Has(log'[p].ops, "verify_copy")
                 /\ fs'[log'[p].dest_path] = fs[log'[p].dest_path]
        /\ ~call'.made =>
              \A q \in DestFiles(fs) : q \in DOMAIN fs' /\ fs'[q] = fs[q]
      ]_vars

\* C3 witness: a real run skipped a file whose content differs from the
\* content of the file that holds its destination path
C3_Witness ==
    /\ ~organizer.dry_run
    /\ \E p \in DOMAIN log :
          /\ log[p].branch = "skipped"
          /\ is_file(fs, log[p].dest_path)
          /\ fs[log[p].dest_path].content # run.start[p].content

\* a run that organized the single image file r.source, with a date, into
\* an empty destination, not as a dry run, without remove_source, and
\* returned
SingleImageRun(r, self, lg) ==
    /\ r.status = "returned"
    /\ is_file(r.start, r.source)
    /\ r.start[r.source].mime[1] = "image"
    /\ ~self.dry_run /\ ~r.remove_source
    /\ {q \in DOMAIN r.start : InDest(q)} = {DestRoot}
    /\ lg[r.source].date # None

\* C4: after such a run the destination holds exactly one file, the copy
\* of the source at destination/year/month/day/name; the same call made
\* again returns by the skip branch and leaves the destination tree as the
\* first call left it.
C4_OneFileThenIdempotent ==
    /\ (runs = 1 /\ SingleImageRun(run, organizer, log)) =>
          \E q \in DOMAIN fs :
              /\ DestFiles(fs) = {q}
              /\ IsDatePath(parent(q), DestRoot, log[run.source].date)
              /\ name(q) = name(run.source)
              /\ fs[q] = run.start[run.source]
    /\ (runs = 2 /\ SingleImageRun(prev.run, prev.organizer, prev.log)
          /\ ~organizer.dry_run /\ run.status # "running") =>
          /\ run.status = "returned"
          /\ log[run.source].branch = "skipped"
          /\ DestTree(fs) = DestTree(run.start)
          /\ Cardinality(DestFiles(fs)) = 1

\* C4 witness: the second of the two calls has returned
C4_Witness ==
    /\ runs = 2 /\ SingleImageRun(prev.run, prev.organizer, prev.log)
    /\ ~organizer.dry_run /\ run.status = "returned"
    /\ log[run.source].branch = "skipped"

\* verify_copy got through its checks and copy2 wrote the destination
Wrote(c) == c.made /\ Has(c.ops, "copy2") /\ c.raised # "OSError"

\* C5: when verify_copy has copied and returns, source and destination
\* have the same SHA-256; when the digests differ it raises ValueError
\* after deleting the file it wrote; so it leaves no file it wrote with
\* another digest than the source's.  The same holds of the calls
\* organize_file makes.
C5_NoMismatchedCopyLeft ==
    /\ Wrote(call) =>
          /\ call.raised \in {"none", "ValueError: contents did not match"}
          /\ call.raised = "none" =>
                /\ is_file(fs, call.destination)
                /\ sha256_file(fs, call.destination) = sha256_file(fs, call.source)
          /\ call.raised # "none" =>
                /\ call.destination \notin DOMAIN fs
                /\ call.ops = <<"sha256_file", "copy2", "sha256_file", "unlink">>
          /\ (call.raised # "none") =
                (hexdigest(call.written) # sha256_file(call.before, call.source))
          /\ is_file(fs, call.destination) =>
                sha256_file(fs, call.destination) = sha256_file(fs, call.source)
    /\ \A p \in DOMAIN log :
          /\ log[p].branch = "copy-raised" => log[p].dest_path \notin DOMAIN fs
          /\ log[p].branch = "copied" =>
                /\ is_file(fs, log[p].dest_path)
                /\ sha256_file(fs, log[p].dest_path) = sha256_file(run.start, p)

\* C5 witness: the copy did not match, the file written was deleted and
\* ValueError raised
C5_Witness ==
    /\ Wrote(call)
    /\ call.raised = "ValueError: contents did not match"
    /\ Has(call.ops, "unlink")
    /\ call.destination \notin DOMAIN fs

\* C6: verify_copy of a source that is no regular file, and of a
\* destination that is a directory, raises ValueError before it hashes or
\* copies anything, and the filesystem is as it was.
C6_PreconditionsBeforeIO ==
    call.made =>
       /\ ~is_file(call.before, call.source) =>
             /\ call.raised = "ValueError: Source must be a file"
             /\ call.ops = <<>>
             /\ fs = call.before
       /\ (is_file(call.before, call.source) /\ is_dir(call.before, call.destination)) =>
             /\ call.raised = "ValueError: Destination may not be a directory"
             /\ call.ops = <<>>
             /\ fs = call.before

\* C6 witness: a regular file was to be copied onto a directory
C6_Witness ==
    /\ call.made
    /\ is_file(call.before, call.source)
    /\ is_dir(call.before, call.destination)
    /\ call.raised = "ValueError: Destination may not be a directory"

\* a copy failure ended the handling of p
CopyFailed(p) == p \in DOMAIN log /\ log[p].branch = "copy-raised"

\* C7 (as claimed): when verify_copy fails for a file of a directory, the
\* entries of the directory that come after it are still processed.
C7_SiblingsStillProcessed ==
    \A p \in DOMAIN log :
        (CopyFailed(p) /\ stack # <<>>) =>
            \A q \in Top.todo \ {p} : is_file(fs, q) => q \in DOMAIN log

\* C7 (amended): a copy failure leaves organize_file and organize_dir: the
\* run has raised the ValueError, and no entry of the directory that comes
\* after the failing file has been processed.
C7_CopyFailureAbortsTraversal ==
    \A p \in DOMAIN log :
        CopyFailed(p) =>
            /\ run.status = "raised"
            /\ run.raised = "ValueError: contents did not match"
            /\ stack # <<>> =>
                  /\ p \in Top.todo
                  /\ \A q \in Top.todo \ {p} : q \notin DOMAIN log

\* C7 witness: the copy of one file failed while a sibling file was still
\* to come
C7_Witness ==
    \E p \in DOMAIN log :
        /\ CopyFailed(p)
        /\ stack # <<>>
        /\ \E q \in Top.todo \ {p} : is_file(fs, q) /\ q \notin DOMAIN log

\* what organize_file decided for a file
Decision(e) == [kind |-> e.kind, date |-> e.date, dest_path |-> e.dest_path, choice |-> e.choice]

\* the run that ended was a dry run and the current run is a real run over
\* the same source, the same files and the same destination files
DryThenReal ==
    /\ runs = 2
    /\ prev.organizer.dry_run /\ prev.run.status = "returned"
    /\ ~organizer.dry_run
    /\ Files(prev.run.start) = Files(run.start)

\* C8 (as claimed): every file visited by the dry run and by the real run
\* gets the same decision in both.
C8_DryRunDecidesAsRealRun ==
    DryThenReal =>
        \A p \in (DOMAIN log) \cap (DOMAIN prev.log) :
            Decision(log[p]) = Decision(prev.log[p])

\* C8 (amended): every file visited by both runs gets the same
\* classification, date and destination path in both, and the same choice
\* between skip and copy unless an earlier copy of the real run created
\* its destination path: then the real run skips it and the dry run logs
\* a copy.
C8_DryRunDecidesUpToEarlierCopies ==
    DryThenReal =>
        \A p \in (DOMAIN log) \cap (DOMAIN prev.log) :
            LET e == log[p]
                d == prev.log[p]
            IN  /\ e.kind = d.kind /\ e.date = d.date /\ e.dest_path = d.dest_path
                /\ \/ e.choice = d.choice
                   \/ /\ d.choice = "copy" /\ e.choice = "skip"
                      /\ \E q \in (DOMAIN log) \ {p} :
                            /\ log[q].branch = "copied"
                            /\ log[q].dest_path = e.dest_path

\* C8 witness: two files of one name and date; the dry run logged a copy
\* for both, the real run copied one and skipped the other
C8_Witness ==
    /\ DryThenReal
    /\ \E p \in (DOMAIN log) \cap (DOMAIN prev.log) :
          /\ prev.log[p].choice = "copy"
          /\ log[p].choice = "skip"

\* C9: the directory organize_file computes for a date is
\* destination/year/month/day, each written in decimal without padding.
C9_DatePathUnpadded ==
    \A p \in DOMAIN log :
        log[p].dest_path # <<>> =>
            IsDatePath(parent(log[p].dest_path), run.destination, log[p].date)

\* C9 witness: a path for a date with a one-digit month and one for a date
\* with a one-digit day have been computed
C9_Witness ==
    /\ \E p \in DOMAIN log : log[p].dest_path # <<>> /\ log[p].date.month < 10
    /\ \E p \in DOMAIN log : log[p].dest_path # <<>> /\ log[p].date.day < 10

\* the content of p is neither image/* nor video/mp4
Unclassifiable(f, p) == f[p].mime[1] # "image" /\ f[p].mime # <<"video", "mp4">>

\* every extractor of the chain of p returns None
NoExtractorHasDate(self, f, p) ==
    /\ ~Unclassifiable(f, p)
    /\ \A i \in 1..Len(ChainFor(self, f[p])) :
          extract(ChainFor(self, f[p])[i], p, f[p]) = Extraction(None, "none")

\* C10: organize_file of a file of unclassifiable content, or of a file
\* no extractor has a date for, returns without an error and without a
\* change of the filesystem, whatever remove_source is; for unclassifiable
\* content it invokes no extractor.
C10_NoDateNoEffect ==
    [][ \A p \in DOMAIN log' :
           (Processed(p) /\ (Unclassifiable(fs, p) \/ NoExtractorHasDate(organizer', fs, p)))
           => /\ fs' = fs
              /\ log'[p].ops = <<>>
              /\ log'[p].date = None
              /\ run'.status # "raised"
              /\ Unclassifiable(fs, p) => log'[p].invoked = <<>>
      ]_vars

\* C10 witness: with remove_source set, a file no extractor has a date for
\* and a file of unclassifiable content were handled and are still there
C10_Witness ==
    /\ organizer.remove_source
    /\ \E p \in DOMAIN log :
          /\ NoExtractorHasDate(organizer, run.start, p)
          /\ Len(log[p].invoked) >= 1
          /\ is_file(fs, p)
    /\ \E p \in DOMAIN log : Unclassifiable(run.start, p) /\ is_file(fs, p)

\* organize_dir has gone through the entries of Top.source and is at the
\* removal of the directory
AtRemoval == run.status = "running" /\ stack # <<>> /\ Top.todo = {}

\* the directory is to be removed: remove_source is set, no dry run
Removing == organizer.remove_source /\ ~organizer.dry_run

\* this step left organize_dir by its return: the frame is gone, the
\* caller goes on, nothing is raised
DirReturned ==
    /\ stack' = SubSeq(stack, 1, Len(stack) - 1)
    /\ run'.raised = "none"
    /\ run'.status = (IF Len(stack) = 1 THEN "returned" ELSE "running")

\* C11: organize_dir removes the directory only after all its entries
\* were gone through, and only with remove_source set outside a dry run;
\* otherwise it returns with the filesystem untouched.  A directory that
\* still has entries is not removed and organize_dir returns as if the
\* removal had worked, unless the removal failed for another reason; a
\* removal of an empty directory either removes it or propagates its
\* failure.  No step of a run removes a directory that has entries.
C11_NonEmptyRemovalTolerated ==
    [][ /\ \A d \in DOMAIN fs :
              (is_dir(fs, d) /\ d \notin DOMAIN fs')
              => /\ AtRemoval /\ d = Top.source
                 /\ Removing /\ run.remove_source
                 /\ iterdir(fs, d) = {}
                 /\ DirReturned
        /\ AtRemoval =>
              /\ ~Removing => fs' = fs /\ DirReturned
              /\ (Removing /\ iterdir(fs, Top.source) # {}) =>
                    /\ fs' = fs
                    /\ run'.raised # "[Errno 39]"
                    /\ DirReturned \/ (run'.status = "raised" /\ run'.raised = "[Errno 13]")
              /\ (Removing /\ iterdir(fs, Top.source) = {}) =>
                    \/ fs' = unlink(fs, Top.source) /\ DirReturned
                    \/ /\ fs' = fs
                       /\ run'.status = "raised" /\ run'.raised = "[Errno 13]"
                       /\ stack' = stack
      ]_vars

\* C11 witness: with remove_source set, a file of the subdirectory was
\* skipped; the subdirectory and the source directory are still there and
\* the run has returned
C11_Witness ==
    /\ organizer.remove_source /\ ~organizer.dry_run
    /\ run.status = "returned" /\ run.source = SourceRoot
    /\ is_dir(fs, SubDir) /\ is_dir(fs, SourceRoot)
    /\ \E p \in DOMAIN log :
          /\ parent(p) = SubDir
          /\ log[p].branch = "skipped"
          /\ is_file(fs, p)
    /\ \E p \in DOMAIN log : parent(p) = SourceRoot /\ log[p].branch = "copied"

\* the call recorded for p is extract() of an extractor of class cls
ExtractOf(p, cls) == log[p].op = "extract" /\ log[p].extractors[1].cls = cls

\* C12 (as claimed): ExifImageExtractor.extract never raises, and gives
\* None for an image without EXIF, without the DateTime field, or with a
\* DateTime that cannot be parsed, whatever ignore_errors is.
C12_ExifNeverRaises ==
    \A p \in DOMAIN log :
        ExtractOf(p, "ExifImageExtractor") =>
            /\ log[p].raised = "none"
            /\ fs[p].exif \in {ExifAbsent, ExifNoField, ExifMalformed} => log[p].date = None
            /\ fs[p].exif = ExifGood => log[p].date = ExifDate

\* what the two patterns of the model make of the four names: the name
\* does not match, or its first group is a date under the format, or its
\* first group is no date
NameReading(pattern, n) ==
    IF pattern = PatDateTime /\ n = NJpg THEN [matched |-> TRUE, date |-> Date(2021, 6, 13)]
    ELSE IF pattern = PatDateTime /\ n = NBad THEN [matched |-> TRUE, date |-> None]
    ELSE IF pattern = PatWhatsApp /\ n = NWa THEN [matched |-> TRUE, date |-> Date(2020, 1, 1)]
    ELSE [matched |-> FALSE, date |-> None]

\* C13: RegexExtractor.extract gives None for a name that does not match,
\* the date of the first group for a name that matches and parses
\* ((\d{8}_\d{6}) with YYYYMMDD_HHmmss on 20210613_164236.jpg gives
\* 2021-06-13), and for a name that matches and does not parse None with
\* ignore_errors and a ValueError without; a chain whose extractor raised
\* stops there: the raiser is the last extractor invoked, no date comes
\* out, and the modification time behind it is not asked.
C13_RegexThreeOutcomes ==
    \A p \in DOMAIN log :
        /\ ExtractOf(p, "RegexExtractor") =>
              LET self == log[p].extractors[1]
                  reading == NameReading(self.pattern, name(p))
              IN  /\ ~reading.matched => log[p].raised = "none" /\ log[p].date = None
                  /\ (reading.matched /\ reading.date # None) =>
                        log[p].raised = "none" /\ log[p].date = reading.date
                  /\ (reading.matched /\ reading.date = None /\ self.ignore_errors) =>
                        log[p].raised = "none" /\ log[p].date = None
                  /\ (reading.matched /\ reading.date = None /\ ~self.ignore_errors) =>
                        log[p].raised = "ValueError" /\ log[p].date = None
        /\ log[p].op = "extract_date" =>
              LET chain == log[p].extractors
                  k == Len(log[p].invoked)
              IN  /\ \A i \in 1..Len(chain) :
                        ( /\ chain[i].cls = "RegexExtractor" /\ ~chain[i].ignore_errors
                          /\ NameReading(chain[i].pattern, name(p)) = [matched |-> TRUE, date |-> None]
                          /\ Has(log[p].invoked, i) )
                        => /\ log[p].raised = "ValueError"
                           /\ log[p].date = None
                           /\ log[p].invoked = [j \in 1..i |-> j]
                           /\ \A j \in (i + 1)..Len(chain) : ~Has(log[p].invoked, j)
                  /\ \A i \in 1..Len(chain) :
                        ( /\ chain[i].cls = "RegexExtractor" /\ chain[i].ignore_errors
                          /\ NameReading(chain[i].pattern, name(p)) = [matched |-> TRUE, date |-> None]
                          /\ Has(log[p].invoked, i) /\ i < Len(chain) )
                        => Has(log[p].invoked, i + 1)

\* C13 witness: in a chain a RegexExtractor without ignore_errors raised
\* on a name that matches and does not parse, with a MTimeExtractor
\* behind it that was not invoked
C13_Witness ==
    \E p \in DOMAIN log :
        /\ log[p].op = "extract_date"
        /\ log[p].raised = "ValueError"
        /\ name(p) = NBad
        /\ LET chain == log[p].extractors
               k == Len(log[p].invoked)
           IN  /\ k >= 1 /\ k < Len(chain)
               /\ chain[k].cls = "RegexExtractor" /\ ~chain[k].ignore_errors
               /\ chain[Len(chain)].cls = "MTimeExtractor"
               /\ ~Has(log[p].invoked, Len(chain))

\* C14: ExifToolExtractor.extract has two policies.  When exiftool is not
\* found or exits with a non-zero status, extract gives None with
\* ignore_errors and raises that error without.  When exiftool ran,
\* extract never raises, whatever ignore_errors is: a Create Date line
\* that cannot be parsed is passed over and gives no date, output without
\* a Create Date line gives None, and a Create Date line that parses
\* gives its date.
C14_ExifToolTwoPolicies ==
    \A p \in DOMAIN log :
        ExtractOf(p, "ExifToolExtractor") =>
            LET self == log[p].extractors[1]
                tool == fs[p].exiftool
            IN  /\ (tool \in {ToolMissing, ToolFailed} /\ self.ignore_errors) =>
                      log[p].raised = "none" /\ log[p].date = None
                /\ (tool = ToolMissing /\ ~self.ignore_errors) =>
                      log[p].raised = "FileNotFoundError" /\ log[p].date = None
                /\ (tool = ToolFailed /\ ~self.ignore_errors) =>
                      log[p].raised = "CalledProcessError" /\ log[p].date = None
                /\ tool.error = "none" => log[p].raised = "none"
                /\ tool \in {ToolOutput(<<>>), ToolOutput(<<OtherLine>>),
                             ToolOutput(<<OtherLine, BadCreateDate>>)} => log[p].date = None
                /\ tool \in {ToolOutput(<<OtherLine, GoodCreateDate>>),
                             ToolOutput(<<GoodCreateDate, BadCreateDate>>)} =>
                      log[p].date = ExifDate

\* C14 witness: without ignore_errors, exiftool ran and its only Create
\* Date line could not be parsed: extract returned None
C14_Witness ==
    \E p \in DOMAIN log :
        /\ ExtractOf(p, "ExifToolExtractor")
        /\ ~log[p].extractors[1].ignore_errors
        /\ fs[p].exiftool = ToolOutput(<<OtherLine, BadCreateDate>>)
        /\ log[p].raised = "none" /\ log[p].date = None

InSource(p) == p[1] = SourceRoot[1]

\* C15: in every step of every organize run, a file of the source tree
\* that the step deletes is the file organize_file handled in that step,
\* in a run with remove_source set that is no dry run, after verify_copy
\* returned for it (the branch is the copy, the calls end with
\* verify_copy and unlink), and after the step the destination holds at
\* destination/year/month/day a file of the same name with the digest the
\* source had.  A file that was skipped, had no date, was of unknown
\* content, whose copy failed, or that a dry run handled is still there.
C15_SourceDeletedOnlyAfterVerifiedCopy ==
    [][ ~call'.made =>
          /\ \A p \in DOMAIN fs :
                (InSource(p) /\ is_file(fs, p) /\ p \notin DOMAIN fs')
                => /\ Processed(p)
                   /\ organizer'.remove_source /\ ~organizer'.dry_run /\ run'.remove_source
                   /\ log'[p].branch = "copied"
                   /\ log'[p].ops = <<"mkdir", "verify_copy", "unlink">>
                   /\ run'.raised = "none"
                   /\ LET dest_path == log'[p].dest_path
                      IN  /\ IsDatePath(parent(dest_path), run'.destination, log'[p].date)
                          /\ name(dest_path) = name(p)
                          /\ dest_path \notin DOMAIN fs
                          /\ is_file(fs', dest_path)
                          /\ sha256_file(fs', dest_path) = sha256_file(fs, p)
                          /\ fs'[dest_path].content = fs[p].content
          /\ \A p \in DOMAIN log' :
                ( /\ Processed(p)
                  /\ \/ log'[p].branch \in {"skipped", "no-date", "not-media", "copy-raised",
                                            "dry-run", "extract-raised", "mkdir-raised"}
                     \/ organizer'.dry_run
                     \/ ~run'.remove_source )
                => is_file(fs', p) /\ fs'[p] = fs[p]
      ]_vars

\* C15 witness: with remove_source set, one file was copied and deleted,
\* another was skipped and is still in the source tree
C15_Witness ==
    /\ organizer.remove_source /\ ~organizer.dry_run
    /\ \E p \in DOMAIN log :
          /\ log[p].branch = "copied"
          /\ p \notin DOMAIN fs
          /\ is_file(fs, log[p].dest_path)
          /\ fs[log[p].dest_path].content = run.start[p].content
    /\ \E p \in DOMAIN log : log[p].branch = "skipped" /\ is_file(fs, p)

====
